---- MODULE Spec2Model ----
(***************************************************************************)
(* Model of the IterateSwarm core: the FeedbackWorkflow state machine      *)
(* (apps/core/internal/workflow/activities.go), its three activities, the *)
(* SimpleRetry helper (internal/retry/retry.go) and the Temporal client   *)
(* wrapper (internal/temporal/client.go) that starts and signals runs.    *)
(*                                                                         *)
(* The workflow engine is modelled by what the calls in the source ask of *)
(* it: ExecuteWorkflow with only {ID, TaskQueue}, activities scheduled    *)
(* with only the two timeouts (so the engine's default retry policy       *)
(* re-invokes a failed activity), a signal channel that buffers signals   *)
(* for as long as the run is open, and AwaitWithTimeout, which evaluates  *)
(* its condition before it looks at the timer.                            *)
(*                                                                         *)
(* Around the workflow: the HTTP handlers (internal/api/handlers.go, in    *)
(* its two revisions) that publish feedback records and turn chat          *)
(* interactions into signals, and the broker client                        *)
(* (internal/redpanda/client.go) that writes and fetches the records.     *)
(***************************************************************************)
EXTENDS Integers, Sequences, FiniteSets, TLC

\* ---------------------------------------------------------------- bounds
MaxRuns == 2              \* workflow runs the engine is asked to keep
MaxSignals == 2           \* signals the engine accepts in all
MaxFaults == 1            \* lost responses and engine re-invocations in all
MaxRecords == 1
MaxAttempt == 7
MaxCallers == 3
MaxRejects == 3           \* records appended to the feedback topic

\* ------------------------------------------------------ program constants
MaxRetries == 3           \* DefaultRetryConfig().MaxRetries

WorkflowIDs == {"fbk-1"}

\* A signal payload is an interface{} value: a string, or something else
\* (for instance a struct {decision, actor_id}) that fails the workflow's
\* string type assertion.
Str(s) == [isString |-> TRUE, val |-> s]
NonStr(s) == [isString |-> FALSE, val |-> s]
NilValue == NonStr("nil")
NoSignal == [p |-> NilValue, at |-> "never"]
Payloads == {Str("approve"), Str("reject"), NonStr("approve")}

StageOrder == <<"analyze", "notify", "await", "publish">>

VARIABLES
    runs,       \* the engine's workflow executions, in start order
    env,        \* process environment of the activity worker
    lastStart,  \* what the last StartWorkflow call returned
    inputs,     \* FeedbackInput of each workflow id (UserID, Source)
    build,      \* which revision of api.Handler the server is built from
    ixn,        \* the interaction the handler answered last
    broker,     \* the feedback topic, its consumer group and the launcher
    web,        \* the web app's webhook routes: secrets, database, producer
    gw,         \* the webhook request answered last, and its answer
    call,       \* one use of the retry package: its input and its result
    embed,      \* the approval prompt being built: its input and its output
    consumer,   \* the goroutine of Client.Consume, its channel and its caller
    kafka,      \* the web app's producer singleton and the callers asking for it
    issue       \* one issue row of the web app and the reject requests for it

\* everything outside the workflow engine
gatewayVars ==
    <<inputs, build, ixn, broker, web, gw, call, embed, consumer, kafka, issue>>

\* the state of the parts modelled on their own
partVars == <<embed, consumer, kafka, issue>>

vars ==
    <<runs, env, lastStart, inputs, build, ixn, broker, web, gw, call, embed,
      consumer, kafka, issue>>

\* ------------------------------------------------------------- SimpleRetry
\* outs[k] is what the k-th call of fn does: "ok" (returns nil), "lost" (the
\* remote side performed the request but fn returns an error) or "fail" (the
\* request had no effect and fn returns an error).
CallOutcomes(kinds) == [1..(MaxRetries + 1) -> kinds]

\* variant: the loop goes on after a call that returned nil
RECURSIVE RetryLoopNoReturn(_, _)
RetryLoopNoReturn(outs, attempt) ==
    IF attempt > MaxRetries
    THEN [calls |-> attempt, err |-> outs[attempt] # "ok"]
    ELSE RetryLoopNoReturn(outs, attempt + 1)

RECURSIVE RetryLoop(_, _)
RetryLoop(outs, attempt) ==
    IF attempt > MaxRetries
    THEN [calls |-> attempt, err |-> TRUE]
    ELSE IF outs[attempt + 1] = "ok"
         THEN [calls |-> attempt + 1, err |-> FALSE]
         ELSE RetryLoop(outs, attempt + 1)

SimpleRetry(outs) == RetryLoop(outs, 0)

\* number of the first n calls that took effect at the remote side
RECURSIVE Effects(_, _)
Effects(outs, n) ==
    IF n = 0 THEN 0
    ELSE Effects(outs, n - 1) + (IF outs[n] \in {"ok", "lost"} THEN 1 ELSE 0)

\* ------------------------------------------------------------ the workflow
Open(run) == run.pc # "done"

NewRun(id) ==
    [id |-> id, pc |-> "analyze", outcome |-> "none", stages |-> <<"analyze">>,
     analysis |-> "none", notified |-> "none",
     signalChan |-> <<>>, accepted |-> 0, first |-> NoSignal,
     timerStarted |-> FALSE, timerFired |-> FALSE,
     signalReceived |-> FALSE, signalValue |-> NilValue,
     msgs |-> 0, issues |-> 0, faults |-> 0,
     url |-> 0, externalRef |-> <<>>]

\* In a run, `url` is what CreateGitHubIssue returned last: the number of
\* the run's issue the URL points at, 0 for the empty string.  `externalRef`
\* is the tracker URL the workflow has recorded: <<>> while there is none.

\* workflow.ExecuteActivity(ctx, stage, ...)
Schedule(run, stage) ==
    [run EXCEPT !.pc = stage, !.stages = Append(@, stage)]

\* return from FeedbackWorkflow: the run closes, and what its signal channel
\* still buffers goes with it
Finish(run, outcome) ==
    [run EXCEPT !.pc = "done", !.outcome = outcome, !.signalChan = <<>>]

\* variant: any received signal approves
ApprovedAnySignal(received, value) == received

\* approved := signalReceived && signalValue.(string) == "approve"
Approved(received, value) ==
    received /\ value.isString /\ value.val = "approve"

\* variant: the channel is drained and the latest signal is kept
ReceiveLatest(run) ==
    IF run.signalChan = <<>>
    THEN run
    ELSE [run EXCEPT !.signalValue = run.signalChan[Len(run.signalChan)],
                     !.signalChan = <<>>,
                     !.signalReceived = TRUE]

\* signalChan.ReceiveAsync(&signalValue) inside the await condition
ReceiveAsync(run) ==
    IF run.signalChan = <<>>
    THEN run
    ELSE [run EXCEPT !.signalValue = Head(run.signalChan),
                     !.signalChan = Tail(run.signalChan),
                     !.signalReceived = TRUE]

\* variant: step 4 tests signalReceived instead of approved
AfterWaitOnReceived(run) ==
    IF ~run.signalReceived
    THEN Finish(run, "timedout")
    ELSE Schedule(run, "publish")

\* steps 4 and 5 of the workflow, after AwaitWithTimeout returned
AfterWait(run) ==
    IF ~Approved(run.signalReceived, run.signalValue)
    THEN Finish(run, IF run.signalReceived THEN "rejected" ELSE "timedout")
    ELSE Schedule(run, "publish")

\* variant: the wait has no timeout, only a signal ends it
AwaitWithoutTimeout(run) ==
    IF run.signalChan # <<>>
    THEN AfterWait(ReceiveAsync(run))
    ELSE [run EXCEPT !.pc = "await"]

\* one evaluation of AwaitWithTimeout's loop: the condition first, then the
\* timer, else stay blocked
AwaitWithTimeout(run) ==
    IF run.signalChan # <<>>
    THEN AfterWait(ReceiveAsync(run))
    ELSE IF run.timerFired
         THEN AfterWait(run)
         ELSE [run EXCEPT !.pc = "await"]

\* variant: step 3 blocks on the timer without polling the channel first
EnterAwaitBlocked(run) ==
    [run EXCEPT !.pc = "await", !.stages = Append(@, "await"),
                !.timerStarted = TRUE]

\* step 3 is reached: the timer is created and the condition is evaluated
\* for the first time in the same workflow task
EnterAwait(run) ==
    AwaitWithTimeout([run EXCEPT !.pc = "await",
                                 !.stages = Append(@, "await"),
                                 !.timerStarted = TRUE])

\* variant: the duplicate check is missing
AfterAnalyzeNoDuplicateCheck(run, err, isDuplicate) ==
    IF err THEN Finish(run, "failed") ELSE Schedule(run, "notify")

\* variant: the analyze error is ignored
AfterAnalyzeIgnoringError(run, err, isDuplicate) ==
    IF isDuplicate THEN Finish(run, "duplicate") ELSE Schedule(run, "notify")

\* after step 1: error, duplicate, or on to step 2
AfterAnalyze(run, err, isDuplicate) ==
    IF err THEN Finish(run, "failed")
    ELSE IF isDuplicate THEN Finish(run, "duplicate")
    ELSE Schedule(run, "notify")

\* variant: the notify error is ignored
AfterNotifyIgnoringError(run, err) == EnterAwait(run)

\* after step 2: error, or on to step 3
AfterNotify(run, err) ==
    IF err THEN Finish(run, "failed") ELSE EnterAwait(run)

\* after step 5: the workflow returns the activity's error
AfterPublish(run, err) ==
    Finish(run, IF err THEN "failed" ELSE "published")

\* ------------------------------------------------------------- the engine
\* A closed run that a new run of the same id supersedes is no longer the
\* target of any call; the model keeps what it left behind (its outcome, its
\* chat messages and tracker issues, the signals and faults it used up).
Superseded(run) ==
    [NewRun(run.id) EXCEPT !.pc = "done", !.outcome = run.outcome,
                           !.stages = <<>>,
                           !.msgs = run.msgs, !.issues = run.issues,
                           !.url = run.url, !.externalRef = run.externalRef,
                           !.accepted = run.accepted, !.faults = run.faults]

\* client.ExecuteWorkflow with StartWorkflowOptions{ID, TaskQueue}: the
\* handle of the open run with that id if there is one, else a new run
ExecuteWorkflow(rs, id) ==
    IF \E r \in DOMAIN rs : rs[r].id = id /\ Open(rs[r])
    THEN [runs |-> rs,
          run |-> CHOOSE r \in DOMAIN rs : rs[r].id = id /\ Open(rs[r]),
          created |-> FALSE]
    ELSE [runs |-> Append([r \in DOMAIN rs |->
                              IF rs[r].id = id THEN Superseded(rs[r]) ELSE rs[r]],
                          NewRun(id)),
          run |-> Len(rs) + 1, created |-> TRUE]

\* where a run is when a signal arrives: before the approval wait, in the
\* wait with the timer pending, in the wait with the timer fired, after it
Phase(run) ==
    IF run.pc \in {"analyze", "notify"} THEN "early"
    ELSE IF run.pc = "await"
         THEN IF run.timerFired THEN "late" ELSE "waiting"
         ELSE "after"

\* the engine appends an accepted signal to the run's channel; `accepted`
\* counts the run's signals and `first` keeps the first one in arrival
\* order with the phase it arrived in
Deliver(run, payload) ==
    [run EXCEPT !.signalChan = Append(@, payload),
                !.accepted = @ + 1,
                !.first = IF run.accepted = 0
                          THEN [p |-> payload, at |-> Phase(run)] ELSE @]

RECURSIVE Sum(_, _)
Sum(f(_), n) == IF n = 0 THEN 0 ELSE f(n) + Sum(f, n - 1)

SignalsAccepted == LET f(r) == runs[r].accepted IN Sum(f, Len(runs))
FaultsUsed == LET f(r) == runs[r].faults IN Sum(f, Len(runs))

\* ------------------------------------------------- gateway-side state
\* the workflow ids that approval prompts are posted for
PromptIDs == {"fbk-1", "fbk-2"}
UserIDs == {"u1", "u2"}

\* FeedbackInput.UserID and .Source of the workflow started under each id
FeedbackInputs == [PromptIDs -> [userID : UserIDs, source : {"discord"}]]

\* no interaction answered yet
NoInteraction ==
    [type |-> 0, customID |-> <<>>, meant |-> [decision |-> "", workflowID |-> ""],
     status |-> 0, respType |-> 0, sent |-> <<>>]

\* kafka.Writer / kafka.Reader of NewClient: an empty topic, nothing
\* committed for the consumer group, nothing fetched, the launcher idle
NewClient ==
    [topic |-> <<>>, committed |-> 0, position |-> 0, records |-> <<>>,
     started |-> 0]

\* A webhook request: what kind of body it has ("event", a URL-verification
\* "challenge", or "malformed" JSON), its text, its sender, the signature
\* header ("none", "bad", a valid "ed25519" signature of the platform, or the
\* "hmac" of timestamp and body under the shared secret) and the age in
\* seconds of the signature timestamp.
NoRequest ==
    [kind |-> "none", text |-> "", userID |-> "", sig |-> "none", age |-> 0]

\* no webhook answered yet
NoExchange == [handler |-> "none", req |-> NoRequest, status |-> 0, feedbackID |-> ""]

\* the web app before any request: an empty feedbackItem table, nothing sent
NewWeb(secrets) == [secrets |-> secrets, rows |-> <<>>, events |-> <<>>]

\* no approval prompt being built
NoEmbed ==
    [severity |-> "", body |-> <<>>, built |-> FALSE, color |-> 0,
     description |-> [text |-> <<>>, broken |-> 0, marker |-> FALSE]]

\* Consume has just returned the channel: the goroutine is at the top of
\* its loop, the channel is empty, the context is live, the caller receives
NewConsumer ==
    [pc |-> "select", buffered |-> 0, closed |-> FALSE, cancelled |-> FALSE,
     receiving |-> TRUE]

\* the kafka module just loaded: producer and producerPromise are null, no
\* producer was created, nobody has called yet
NoProducer ==
    [producer |-> 0, promise |-> 0, settled |-> <<>>,
     callers |-> [c \in 1..MaxCallers |-> [pc |-> "idle", awaits |-> 0, got |-> 0]],
     disconnect |-> "idle"]

\* a draft issue and no reject request for it
DraftIssue ==
    [exists |-> TRUE, status |-> "draft", body |-> <<"body">>,
     rejects |-> [q \in 1..MaxRejects |->
                    [pc |-> "idle", reason |-> "", seen |-> <<>>, status |-> 0]]]

PartsIdle ==
    /\ embed = NoEmbed
    /\ consumer = NewConsumer
    /\ kafka = NoProducer
    /\ issue = DraftIssue

\* no use of the retry package yet
NoCall ==
    [fn |-> "none", outs |-> <<>>, cancelAt |-> 0, calls |-> 0, err |-> "none",
     wraps |-> "nil", slept |-> <<>>]

GatewayIdle ==
    /\ inputs = [id \in PromptIDs |-> [userID |-> "u1", source |-> "discord"]]
    /\ build = "handlers.go"
    /\ ixn = NoInteraction
    /\ broker = NewClient
    /\ web = NewWeb([discord |-> TRUE, slack |-> TRUE])
    /\ gw = NoExchange
    /\ call = NoCall
    /\ PartsIdle

Init ==
    /\ runs = <<>>
    /\ env \in [discordToken : BOOLEAN, github : {"absent", "norepo", "ok"}]
    /\ lastStart = [id |-> "", run |-> 0, created |-> FALSE]
    /\ GatewayIdle

\* Client.StartWorkflow(ctx, workflowID, taskQueue, input)
StartWorkflow(id) ==
    /\ Len(runs) < MaxRuns
    /\ LET res == ExecuteWorkflow(runs, id) IN
         /\ runs' = res.runs
         /\ lastStart' = [id |-> id, run |-> res.run, created |-> res.created]
    /\ UNCHANGED <<env, gatewayVars>>

\* Client.SignalWorkflow(workflowID, "user-action", payload)
SignalWorkflow(id, payload) ==
    /\ IF \E r \in DOMAIN runs : runs[r].id = id /\ Open(runs[r])
       THEN LET r == CHOOSE q \in DOMAIN runs : runs[q].id = id /\ Open(runs[q]) IN
              /\ SignalsAccepted < MaxSignals
              /\ runs' = [runs EXCEPT ![r] = Deliver(runs[r], payload)]
       ELSE UNCHANGED runs    \* the engine answers not-found
    /\ UNCHANGED <<env, lastStart, gatewayVars>>

\* The engine reports an activity error to the workflow (which continues as
\* `after`), or runs the activity again (default retry policy).  `run` is
\* the run with the side effects of the failed attempt, and `lost` the
\* number of responses that attempt lost.
ActivityFailed(r, run, lost, after) ==
    \/ runs' = [runs EXCEPT ![r] = after]
    \/ /\ FaultsUsed + lost < MaxFaults
       /\ runs' = [runs EXCEPT ![r] = [run EXCEPT !.faults = @ + 1]]

\* what the analyzer answers: a duplicate, a new issue with type and
\* severity set, or a new issue for which GetIssueType and GetSeverity both
\* fall to their default, "unspecified"
AnalysisResults == {"duplicate", "new", "unspecified"}

\* the status codes of a failed call of the analyzer
AnalyzerErrors == {"invalid-argument", "unavailable", "resource-exhausted"}

\* Activities.AnalyzeFeedback, and the workflow task that takes its result.
\* The activity returns the analyzer's error as it is; no retry policy is
\* set, so the engine treats every error alike.
AnalyzeFeedback(r) ==
    /\ runs[r].pc = "analyze"
    /\ \E res \in AnalysisResults \cup AnalyzerErrors :
         IF res \in AnalyzerErrors
         THEN LET erred == [runs[r] EXCEPT !.analysis = res]
              IN ActivityFailed(r, erred, 0, AfterAnalyze(erred, TRUE, FALSE))
         ELSE runs' = [runs EXCEPT ![r] =
                  AfterAnalyze([runs[r] EXCEPT !.analysis = res], FALSE, res = "duplicate")]
    /\ UNCHANGED <<env, lastStart, gatewayVars>>

\* number of the first n calls whose response was lost
RECURSIVE Losses(_, _)
Losses(outs, n) ==
    IF n = 0 THEN 0
    ELSE Losses(outs, n - 1) + (IF outs[n] = "lost" THEN 1 ELSE 0)

\* what SimpleRetry around a call returns and leaves behind at the remote
\* side, for one sequence of call outcomes
Retried(outs) ==
    LET res == SimpleRetry(outs) IN
    [err |-> res.err, effects |-> Effects(outs, res.calls),
     lost |-> Losses(outs, res.calls)]

\* every result of a retried call without remote effect (discordgo.New,
\* Session.Channel) and of one with a remote effect (ChannelMessageSendComplex,
\* Issues.Create)
PlainResults == {Retried(outs) : outs \in CallOutcomes({"ok", "fail"})}
EffectResults == {Retried(outs) : outs \in CallOutcomes({"ok", "lost", "fail"})}

\* Activities.SendDiscordApproval, and the workflow task that takes its result
SendDiscordApproval(r) ==
    /\ runs[r].pc = "notify"
    /\ LET run == runs[r]
           failed(rn, lost) == ActivityFailed(r, rn, lost,
                                   AfterNotify([rn EXCEPT !.notified = "error"], TRUE))
       IN
         IF ~env.discordToken
         THEN runs' = [runs EXCEPT ![r] =
                  AfterNotify([run EXCEPT !.notified = "skipped"], FALSE)]
         ELSE \E session \in PlainResults :
                IF session.err THEN failed(run, 0)
                ELSE \E channel \in PlainResults :
                  IF channel.err THEN failed(run, 0)
                  ELSE \E send \in EffectResults :
                    LET sent == [run EXCEPT !.msgs = @ + send.effects,
                                            !.faults = @ + send.lost]
                    IN /\ FaultsUsed + send.lost <= MaxFaults
                       /\ IF send.err THEN failed(sent, send.lost)
                          ELSE runs' = [runs EXCEPT ![r] =
                                   AfterNotify([sent EXCEPT !.notified = "posted"], FALSE)]
    /\ UNCHANGED <<env, lastStart, gatewayVars>>

\* the approval timer of an open wait fires
TimerFire(r) ==
    /\ runs[r].pc = "await"
    /\ ~runs[r].timerFired
    /\ runs' = [runs EXCEPT ![r].timerFired = TRUE]
    /\ UNCHANGED <<env, lastStart, gatewayVars>>

\* a workflow task wakes the blocked AwaitWithTimeout
AwaitWake(r) ==
    /\ runs[r].pc = "await"
    /\ runs[r].signalChan # <<>> \/ runs[r].timerFired
    /\ runs' = [runs EXCEPT ![r] = AwaitWithTimeout(runs[r])]
    /\ UNCHANGED <<env, lastStart, gatewayVars>>

\* variant: the token check is missing
GitHubTokenAbsentNever(e) == FALSE

\* githubToken == ""
GitHubTokenAbsent(e) == e.github = "absent"

\* Activities.CreateGitHubIssue, and the workflow task that takes its result
CreateGitHubIssue(r) ==
    /\ runs[r].pc = "publish"
    /\ LET run == runs[r]
           failed(rn, lost) == ActivityFailed(r, rn, lost, AfterPublish(rn, TRUE))
       IN
         IF GitHubTokenAbsent(env)
         THEN runs' = [runs EXCEPT ![r] = AfterPublish(run, FALSE)]
         ELSE IF env.github = "norepo"
         THEN failed(run, 0)
         ELSE \E create \in EffectResults :
                LET made == [run EXCEPT !.issues = @ + create.effects,
                                        !.faults = @ + create.lost]
                IN /\ FaultsUsed + create.lost <= MaxFaults
                   /\ IF create.err THEN failed(made, create.lost)
                      ELSE runs' = [runs EXCEPT ![r] =
                               AfterPublish([made EXCEPT !.url = made.issues], FALSE)]
    /\ UNCHANGED <<env, lastStart, gatewayVars>>

Next ==
    \/ \E id \in WorkflowIDs : StartWorkflow(id)
    \/ \E id \in WorkflowIDs, p \in Payloads : SignalWorkflow(id, p)
    \/ \E r \in DOMAIN runs : AnalyzeFeedback(r)
    \/ \E r \in DOMAIN runs : SendDiscordApproval(r)
    \/ \E r \in DOMAIN runs : TimerFire(r)
    \/ \E r \in DOMAIN runs : AwaitWake(r)
    \/ \E r \in DOMAIN runs : CreateGitHubIssue(r)

Spec == Init /\ [][Next]_vars

\* The engine runs every scheduled activity and workflow task, and a started
\* timer fires; starts and signals are the clients' and may never come.
Fairness ==
    \A r \in 1..MaxRuns :
        /\ WF_vars(r \in DOMAIN runs /\ AnalyzeFeedback(r))
        /\ WF_vars(r \in DOMAIN runs /\ SendDiscordApproval(r))
        /\ WF_vars(r \in DOMAIN runs /\ TimerFire(r))
        /\ WF_vars(r \in DOMAIN runs /\ AwaitWake(r))
        /\ WF_vars(r \in DOMAIN runs /\ CreateGitHubIssue(r))

\* one execution from its start to its end, with every signal a client may
\* send meanwhile; executions share no state
LiveNext ==
    \/ \E id \in WorkflowIDs : runs = <<>> /\ StartWorkflow(id)
    \/ \E id \in WorkflowIDs, p \in Payloads : SignalWorkflow(id, p)
    \/ \E r \in DOMAIN runs : AnalyzeFeedback(r)
    \/ \E r \in DOMAIN runs : SendDiscordApproval(r)
    \/ \E r \in DOMAIN runs : TimerFire(r)
    \/ \E r \in DOMAIN runs : AwaitWake(r)
    \/ \E r \in DOMAIN runs : CreateGitHubIssue(r)

LiveSpec == Init /\ [][LiveNext]_vars /\ Fairness

\* ------------------------------------------------ correlation identifier
\* A string that the code puts together or takes apart is a sequence of
\* pieces; a ":" is always a piece of its own, so splitting on it is exact.
RECURSIVE Join(_)
Join(pieces) == IF pieces = <<>> THEN "" ELSE Head(pieces) \o Join(Tail(pieces))

\* WorkflowRunID: "workflow-" + input.UserID + "-" + input.Source
WorkflowRunID(input) == <<"workflow-", input.userID, "-", input.source>>

\* CustomID: fmt.Sprintf("approve_%s", ...) and fmt.Sprintf("reject_%s", ...)
CustomID(decision, runID) == <<decision \o "_">> \o runID

\* the CustomIDs of the two buttons of the prompt a run posted
Controls(run) ==
    [d \in {"approve", "reject"} |-> CustomID(d, WorkflowRunID(inputs[run.id]))]

\* strings.Split(s, sep)
RECURSIVE Split(_, _)
Split(s, sep) ==
    IF \E i \in DOMAIN s : s[i] = sep
    THEN LET i == CHOOSE k \in DOMAIN s :
                      s[k] = sep /\ \A j \in 1..(k - 1) : s[j] # sep
         IN <<SubSeq(s, 1, i - 1)>> \o Split(SubSeq(s, i + 1, Len(s)), sep)
    ELSE <<s>>

\* handlers.go: action := "approve"; workflowID := ""
ParseSimplified(customID) == [action |-> "approve", workflowID |-> ""]

\* the other revision: parts := strings.Split(custom_id, ":");
\* action := parts[0]; workflowID := parts[1] when there is one
ParseCustomID(customID) ==
    LET parts == Split(customID, ":") IN
    [action |-> Join(parts[1]),
     workflowID |-> IF Len(parts) > 1 THEN Join(parts[2]) ELSE ""]

\* what HandleInteraction takes from the custom_id, by revision
Parse(b, customID) ==
    IF b = "handlers.go" THEN ParseSimplified(customID) ELSE ParseCustomID(customID)

\* ------------------------------------------------ the interaction handler
\* the payload format the parsing revision takes apart: decision ":" id
ColonPayload(decision, id) == <<decision, ":", id>>

\* An interaction callback: its type (1 ping, 3 button click), its custom_id
\* and, for the record, the decision and workflow the user meant by it;
\* type 0 stands for a body that does not parse.
Click(customID, decision, id) ==
    [type |-> 3, customID |-> customID,
     meant |-> [decision |-> decision, workflowID |-> id]]

Requests ==
    {[type |-> 1, customID |-> <<>>, meant |-> [decision |-> "", workflowID |-> ""]],
     [type |-> 0, customID |-> <<>>, meant |-> [decision |-> "", workflowID |-> ""]]}
    \cup {Click(Controls(runs[r])[d], d, runs[r].id) :
              r \in {q \in DOMAIN runs : runs[q].msgs > 0}, d \in {"approve", "reject"}}
    \cup {Click(ColonPayload(d, id), d, id) :
              d \in {"approve", "reject", "maybe"}, id \in PromptIDs}

\* the engine's side of Client.SignalWorkflow: the signal is appended to the
\* open run of that id, or the call fails (not found; an empty id is invalid)
SignalWorkflowExecution(rs, id, payload) ==
    IF \E r \in DOMAIN rs : rs[r].id = id /\ Open(rs[r])
    THEN LET r == CHOOSE q \in DOMAIN rs : rs[q].id = id /\ Open(rs[q]) IN
         [runs |-> [rs EXCEPT ![r] = Deliver(rs[r], payload)], err |-> FALSE]
    ELSE [runs |-> rs, err |-> TRUE]

\* variant: the ping check is missing
IsPingNever(req) == FALSE

\* if req.Type == 1
IsPing(req) == req.type = 1

\* Handler.HandleInteraction
HandleInteraction(req) ==
    /\ IF req.type = 0
       THEN /\ ixn' = [type |-> 0, customID |-> req.customID, meant |-> req.meant,
                       status |-> 400, respType |-> 0, sent |-> <<>>]
            /\ UNCHANGED runs
       ELSE IF IsPing(req)
       THEN /\ ixn' = [type |-> req.type, customID |-> req.customID,
                       meant |-> req.meant,
                       status |-> 200, respType |-> 1, sent |-> <<>>]
            /\ UNCHANGED runs
       ELSE LET p == Parse(build, req.customID)
                res == SignalWorkflowExecution(runs, p.workflowID, Str(p.action))
            IN /\ ~res.err => SignalsAccepted < MaxSignals
               /\ runs' = res.runs
               /\ ixn' = [type |-> req.type, customID |-> req.customID,
                          meant |-> req.meant,
                          status |-> IF res.err THEN 500 ELSE 200,
                          respType |-> IF res.err THEN 0 ELSE 4,
                          sent |-> <<[workflowID |-> p.workflowID,
                                      payload |-> Str(p.action),
                                      err |-> res.err]>>]
    /\ UNCHANGED <<env, lastStart, inputs, build, broker, web, gw, call, partVars>>

\* a run that analysed its feedback as new, posted its prompt and waits
Prompted(id) ==
    AfterNotify([AfterAnalyze([NewRun(id) EXCEPT !.analysis = "new"], FALSE, FALSE)
                    EXCEPT !.msgs = 1, !.notified = "posted"], FALSE)

\* the server with prompts posted for one or two workflows
InitInteraction ==
    /\ runs \in {<<Prompted("fbk-1")>>, <<Prompted("fbk-1"), Prompted("fbk-2")>>}
    /\ env = [discordToken |-> TRUE, github |-> "ok"]
    /\ lastStart = [id |-> runs[Len(runs)].id, run |-> Len(runs), created |-> TRUE]
    /\ inputs \in FeedbackInputs
    /\ build \in {"handlers.go", "part_002"}
    /\ ixn = NoInteraction
    /\ broker = NewClient
    /\ web = NewWeb([discord |-> TRUE, slack |-> TRUE])
    /\ gw = NoExchange
    /\ call = NoCall
    /\ PartsIdle

NextInteraction ==
    \/ \E req \in Requests : HandleInteraction(req)
    \/ \E r \in DOMAIN runs : TimerFire(r)
    \/ \E r \in DOMAIN runs : AwaitWake(r)

InteractionSpec == InitInteraction /\ [][NextInteraction]_vars

\* ------------------------------------------------- ingestion and launch
\* time.Now().Format(time.RFC3339): the clock read to the second, so two
\* publishes within a second read the same value
Timestamps == <<"2026-02-02T10:00:00Z", "2026-02-02T10:00:01Z">>

\* the clock readings possible once the topic holds `topic`: not before the
\* key of its last record
ClockReadings(topic) ==
    {Timestamps[i] : i \in {k \in DOMAIN Timestamps :
        topic = <<>> \/ \E j \in 1..k : Timestamps[j] = topic[Len(topic)].key}}

\* Client.Publish(value): kafka.Message{Value: value, Key: time.Now()...}
Publish(topic, value, now) == Append(topic, [key |-> now, value |-> value])

\* variant: the text check is missing
EmptyTextNever(req) == FALSE

\* if req.Text == ""
EmptyText(req) == req.text = ""

\* variant: the publish error is not looked at
WebhookStatusIgnoringError(err) == 202

\* 500 when Publish returned an error, else 202
WebhookStatus(err) == IF err THEN 500 ELSE 202

Exchange(handler, req, status, feedbackID) ==
    [handler |-> handler, req |-> req, status |-> status, feedbackID |-> feedbackID]

\* Handler.HandleDiscordWebhook; uuid.New() is the next unused identifier.
\* WriteMessages returns nil ("ok"), or an error with the record not written
\* ("fail") or written all the same ("lost": the 10 s context ran out first).
HandleDiscordWebhook(req) ==
    /\ IF req.kind = "malformed" \/ EmptyText(req)
       THEN gw' = Exchange("core", req, 400, "") /\ UNCHANGED broker
       ELSE LET id == ToString(Len(broker.topic) + 1)
                event == [feedbackID |-> id, userID |-> req.userID]
            IN \E out \in {"ok", "lost", "fail"} :
                 /\ gw' = Exchange("core", req, WebhookStatus(out # "ok"),
                                   IF out = "ok" THEN id ELSE "")
                 /\ IF out = "fail"
                    THEN UNCHANGED broker
                    ELSE /\ Len(broker.topic) < MaxRecords
                         /\ \E now \in ClockReadings(broker.topic) :
                               broker' = [broker EXCEPT
                                            !.topic = Publish(broker.topic, event, now)]
    /\ UNCHANGED <<runs, env, lastStart, inputs, build, ixn, web, call, partVars>>

\* Client.Consume: FetchMessage hands over the next record and commits
\* nothing; the record goes into the records channel
Consume ==
    /\ broker.position < Len(broker.topic)
    /\ broker' = [broker EXCEPT !.position = @ + 1,
                                !.records = Append(@, broker.position + 1)]
    /\ UNCHANGED <<runs, env, lastStart, inputs, build, ixn, web, gw, call, partVars>>

\* the launcher's workflow id for a record
LaunchID(record) == "fbk-" \o record.value.feedbackID

\* the launcher takes a record from the channel and starts its workflow
Launch ==
    /\ broker.started = 0
    /\ broker.records # <<>>
    /\ Len(runs) < MaxRuns
    /\ LET offset == Head(broker.records)
           res == ExecuteWorkflow(runs, LaunchID(broker.topic[offset]))
       IN /\ runs' = res.runs
          /\ lastStart' = [id |-> LaunchID(broker.topic[offset]),
                           run |-> res.run, created |-> res.created]
          /\ broker' = [broker EXCEPT !.records = Tail(@), !.started = offset]
    /\ UNCHANGED <<env, inputs, build, ixn, web, gw, call, partVars>>

\* Start has returned: the launcher commits the record's offset
Commit ==
    /\ broker.started # 0
    /\ broker' = [broker EXCEPT !.committed = broker.started, !.started = 0]
    /\ UNCHANGED <<runs, env, lastStart, inputs, build, ixn, web, gw, call, partVars>>

\* the launcher process dies and is started again: what it held in memory
\* is gone and the reader of the consumer group resumes after the last
\* committed offset
Restart ==
    /\ broker' = [broker EXCEPT !.position = broker.committed,
                                !.records = <<>>, !.started = 0]
    /\ UNCHANGED <<runs, env, lastStart, inputs, build, ixn, web, gw, call, partVars>>

WebhookRequests ==
    [kind : {"event"}, text : {"", "app crashes"}, userID : {"u1"},
     sig : {"none"}, age : {0}]

\* server, launcher and worker started; no run reaches the tracker without a
\* signal, so only the chat credential matters here
InitIngest ==
    /\ runs = <<>>
    /\ env \in [discordToken : BOOLEAN, github : {"ok"}]
    /\ lastStart = [id |-> "", run |-> 0, created |-> FALSE]
    /\ GatewayIdle

NextIngest ==
    \/ \E req \in WebhookRequests : HandleDiscordWebhook(req)
    \/ Consume
    \/ Launch
    \/ Commit
    \/ Restart
    \/ \E r \in DOMAIN runs : AnalyzeFeedback(r)
    \/ \E r \in DOMAIN runs : SendDiscordApproval(r)
    \/ \E r \in DOMAIN runs : TimerFire(r)
    \/ \E r \in DOMAIN runs : AwaitWake(r)

IngestSpec == InitIngest /\ [][NextIngest]_vars

(***************************************************************************)
(* The web app's webhook routes (Next.js): each verifies the request,      *)
(* stores a feedbackItem row and sends the feedback event to Kafka.        *)
(***************************************************************************)
\* the replay window of the Slack route, in seconds
ReplayWindow == 300

Abs(n) == IF n < 0 THEN -n ELSE n

Texts == {"", " ", "app crashes"}

\* String.prototype.trim, on Texts
Trim(t) == IF t = " " THEN "" ELSE t

\* body.content / body.event.text; a body of another kind has none
Content(req) == IF req.kind = "event" THEN Trim(req.text) ELSE ""

\* verifyDiscordSignature: the header is compared with the hex HMAC-SHA256 of
\* timestamp + body; a signature of another length makes timingSafeEqual
\* throw, which is caught.  The timestamp is only hashed, never compared
\* with the clock.
verifyDiscordSignature(secrets, req) ==
    /\ secrets.discord
    /\ req.sig # "none"
    /\ req.sig = "hmac"

\* verifySlackSignature: as above, after the replay check
verifySlackSignature(secrets, req) ==
    /\ secrets.slack
    /\ req.sig # "none"
    /\ ~(Abs(req.age) > ReplayWindow)
    /\ req.sig = "hmac"

\* prisma.feedbackItem.create, then sendFeedbackEvent keyed by the row's id,
\* then 202; a throw of either is answered 500 by the catch block.
Persist(source, req) ==
    LET id == "w" \o ToString(Len(web.rows) + 1)
    IN \/ gw' = Exchange(source, req, 500, "") /\ UNCHANGED web
       \/ /\ Len(web.rows) < MaxRecords
          /\ \E out \in {"ok", "lost", "fail"} :
                /\ web' = [web EXCEPT
                             !.rows = Append(@, id),
                             !.events = IF out = "fail" THEN @
                                        ELSE Append(@, [key |-> id, feedbackID |-> id])]
                /\ gw' = Exchange(source, req, IF out = "ok" THEN 202 ELSE 500,
                                  IF out = "ok" THEN id ELSE "")

\* POST /api/webhooks/discord
PostDiscord(req) ==
    /\ IF req.kind = "malformed"
       THEN gw' = Exchange("discord", req, 500, "") /\ UNCHANGED web
       ELSE IF ~verifyDiscordSignature(web.secrets, req)
       THEN gw' = Exchange("discord", req, 401, "") /\ UNCHANGED web
       ELSE IF Content(req) = ""
       THEN gw' = Exchange("discord", req, 400, "") /\ UNCHANGED web
       ELSE Persist("discord", req)
    /\ UNCHANGED <<runs, env, lastStart, inputs, build, ixn, broker, call, partVars>>

\* POST /api/webhooks/slack
PostSlack(req) ==
    /\ IF req.kind = "malformed"
       THEN gw' = Exchange("slack", req, 500, "") /\ UNCHANGED web
       ELSE IF req.kind = "challenge"
       THEN gw' = Exchange("slack", req, 200, "") /\ UNCHANGED web
       ELSE IF ~verifySlackSignature(web.secrets, req)
       THEN gw' = Exchange("slack", req, 401, "") /\ UNCHANGED web
       ELSE IF Content(req) = ""
       THEN gw' = Exchange("slack", req, 400, "") /\ UNCHANGED web
       ELSE Persist("slack", req)
    /\ UNCHANGED <<runs, env, lastStart, inputs, build, ixn, broker, call, partVars>>

Signatures == {"none", "bad", "ed25519", "hmac"}

\* seconds between the signature timestamp and the server's clock
Ages == {-301, 0, 300, 301}

SignedRequests ==
    [kind : {"event"}, text : Texts, userID : {"u1"}, sig : Signatures, age : Ages]
        \cup [kind : {"challenge", "malformed"}, text : {""}, userID : {"u1"},
              sig : Signatures, age : {0}]

InitGateway ==
    /\ runs = <<>>
    /\ env = [discordToken |-> TRUE, github |-> "ok"]
    /\ lastStart = [id |-> "", run |-> 0, created |-> FALSE]
    /\ inputs = [id \in PromptIDs |-> [userID |-> "u1", source |-> "discord"]]
    /\ build = "handlers.go"
    /\ ixn = NoInteraction
    /\ broker = NewClient
    /\ web \in {NewWeb(secrets) : secrets \in [discord : BOOLEAN, slack : BOOLEAN]}
    /\ gw = NoExchange
    /\ call = NoCall
    /\ PartsIdle

NextGateway ==
    \/ \E req \in SignedRequests : HandleDiscordWebhook(req)
    \/ \E req \in SignedRequests : PostDiscord(req)
    \/ \E req \in SignedRequests : PostSlack(req)

GatewaySpec == InitGateway /\ [][NextGateway]_vars

(***************************************************************************)
(* The retry package on its own: one call of SimpleRetry or of Retry with  *)
(* DefaultRetryConfig, for every sequence of outcomes of the wrapped fn.   *)
(***************************************************************************)
\* what a call of fn returns: nil, or an error of one of these kinds
ErrorKinds == {"5xx", "auth", "canceled"}

\* extractStatusCode: always 0
extractStatusCode(err) == 0

\* RetryConfig.ShouldRetry with DefaultRetryConfig (RetryOnError is empty)
ShouldRetry(err, statusCode) ==
    IF err \in {"canceled", "deadline"} THEN TRUE
    ELSE IF err = "nil"
         THEN statusCode >= 500 \/ statusCode = 429
         ELSE TRUE

\* Retry(ctx, DefaultRetryConfig(), fn): cancelAt is the attempt before which
\* ctx is done during the backoff wait (0: never)
RECURSIVE RetryFrom(_, _, _)
RetryFrom(outs, cancelAt, attempt) ==
    IF attempt > MaxRetries
    THEN [calls |-> attempt, err |-> "retry failed"]
    ELSE IF attempt > 0 /\ cancelAt = attempt
    THEN [calls |-> attempt, err |-> "canceled"]
    ELSE IF outs[attempt + 1] = "ok"
    THEN [calls |-> attempt + 1, err |-> "nil"]
    ELSE IF ~ShouldRetry(outs[attempt + 1], extractStatusCode(outs[attempt + 1]))
    THEN [calls |-> attempt + 1, err |-> outs[attempt + 1]]
    ELSE RetryFrom(outs, cancelAt, attempt + 1)

Retry(outs, cancelAt) == RetryFrom(outs, cancelAt, 0)

\* DefaultRetryConfig, in milliseconds
InitialDelay == 1000
MaxDelay == 30000
BackoffMultiplier == 2
Jitter == 100

\* math.Pow(b, n) for a natural n
RECURSIVE Pow(_, _)
Pow(b, n) == IF n = 0 THEN 1 ELSE b * Pow(b, n - 1)

Min(a, b) == IF a < b THEN a ELSE b

\* variant: the delay is not capped
DelayUncapped(attempt, jitter) ==
    InitialDelay * Pow(BackoffMultiplier, attempt - 1) + jitter

\* the delay slept before attempt number `attempt` (> 0) of either loop
Delay(attempt, jitter) ==
    Min(InitialDelay * Pow(BackoffMultiplier, attempt - 1), MaxDelay) + jitter

\* rand.Int63n(int64(config.Jitter) + 1): 0 .. Jitter, here its ends and
\* two values between
JitterValues == {0, 1, 50, Jitter}

\* the waits of a loop that made `calls` calls: one before every attempt
\* but the first (attempt 0), each with a jitter of its own
Waits(calls) ==
    {[k \in 1..(calls - 1) |->
         [attempt |-> k, jitter |-> jit[k], delay |-> Delay(k, jit[k])]] :
       jit \in [1..MaxRetries -> {0, Jitter}]}

CallSimpleRetry ==
    /\ call.fn = "none"
    /\ LET res == SimpleRetry(call.outs)
       IN \E slept \in Waits(res.calls) :
            call' = [call EXCEPT !.fn = "SimpleRetry", !.calls = res.calls,
                                 !.err = IF res.err THEN "retry failed" ELSE "nil",
                                 !.wraps = IF res.err THEN call.outs[res.calls]
                                           ELSE "nil",
                                 !.slept = slept]
    /\ UNCHANGED <<runs, env, lastStart, inputs, build, ixn, broker, web, gw, partVars>>

CallRetry ==
    /\ call.fn = "none"
    /\ LET res == Retry(call.outs, call.cancelAt)
       IN \E slept \in Waits(res.calls) :
            call' = [call EXCEPT !.fn = "Retry", !.calls = res.calls,
                                 !.err = res.err,
                                 !.wraps = IF res.err = "retry failed"
                                           THEN call.outs[res.calls] ELSE "nil",
                                 !.slept = slept]
    /\ UNCHANGED <<runs, env, lastStart, inputs, build, ixn, broker, web, gw, partVars>>

\* the backoff wait of Retry before attempt k, under a configuration that
\* differs from the default in MaxRetries only and so admits attempt k
Backoff(k, jitter) ==
    /\ call.fn = "none"
    /\ call' = [call EXCEPT !.fn = "backoff", !.calls = k,
                            !.slept = <<[attempt |-> k, jitter |-> jitter,
                                         delay |-> Delay(k, jitter)]>>]
    /\ UNCHANGED <<runs, env, lastStart, inputs, build, ixn, broker, web, gw, partVars>>

InitRetry ==
    /\ runs = <<>>
    /\ env = [discordToken |-> TRUE, github |-> "ok"]
    /\ lastStart = [id |-> "", run |-> 0, created |-> FALSE]
    /\ inputs = [id \in PromptIDs |-> [userID |-> "u1", source |-> "discord"]]
    /\ build = "handlers.go"
    /\ ixn = NoInteraction
    /\ broker = NewClient
    /\ web = NewWeb([discord |-> TRUE, slack |-> TRUE])
    /\ gw = NoExchange
    /\ \E outs \in CallOutcomes({"ok"} \cup ErrorKinds), cancelAt \in 0..MaxRetries :
          call = [NoCall EXCEPT !.outs = outs, !.cancelAt = cancelAt]
    /\ PartsIdle

NextRetry ==
    \/ CallSimpleRetry
    \/ CallRetry
    \/ \E k \in 1..MaxAttempt, jitter \in JitterValues : Backoff(k, jitter)

RetrySpec == InitRetry /\ [][NextRetry]_vars

(***************************************************************************)
(* The approval prompt: SendDiscordApproval's choice of colour and its     *)
(* truncation of the body.  A string is a sequence of runs of characters,  *)
(* [n |-> how many, w |-> bytes per character in UTF-8]; a Go string is    *)
(* measured and sliced in bytes.                                           *)
(***************************************************************************)
\* the limit SendDiscordApproval passes to truncateString
MaxBodyLen == 4000

\* len("...")
MarkerLen == 3

Run(n, w) == [n |-> n, w |-> w]

\* len(s): bytes
RECURSIVE ByteLen(_)
ByteLen(s) == IF s = <<>> THEN 0 ELSE Head(s).n * Head(s).w + ByteLen(Tail(s))

\* s[:b]: the characters that lie within the first b bytes, and the number
\* of bytes of a character the cut went through
RECURSIVE Slice(_, _)
Slice(s, b) ==
    IF s = <<>> \/ b = 0
    THEN [text |-> <<>>, broken |-> 0]
    ELSE LET r == Head(s)
         IN IF r.n * r.w <= b
            THEN LET rest == Slice(Tail(s), b - r.n * r.w)
                 IN [text |-> <<r>> \o rest.text, broken |-> rest.broken]
            ELSE [text |-> IF b \div r.w = 0 THEN <<>> ELSE <<Run(b \div r.w, r.w)>>,
                  broken |-> b % r.w]

\* truncateString(s, maxLen)
truncateString(s, maxLen) ==
    IF ByteLen(s) <= maxLen
    THEN [text |-> s, broken |-> 0, marker |-> FALSE]
    ELSE LET cut == Slice(s, maxLen - MarkerLen)
         IN [text |-> cut.text, broken |-> cut.broken, marker |-> TRUE]

\* the values of input.Severity tried
Severities ==
    {"critical", "CRITICAL", "high", "High", "medium", "MEDIUM", "low", "Low",
     "unspecified", "UNSPECIFIED", "urgent", ""}

\* variant: the severity is looked up as it is written
ToLowerIdentity(sev) == sev

\* strings.ToLower, on Severities
ToLower(sev) ==
    CASE sev = "CRITICAL" -> "critical"
      [] sev = "High" -> "high"
      [] sev = "MEDIUM" -> "medium"
      [] sev = "Low" -> "low"
      [] sev = "UNSPECIFIED" -> "unspecified"
      [] OTHER -> sev

\* the map severityColor; a key it does not hold reads as 0
severityColor(key) ==
    CASE key = "critical" -> 16711680
      [] key = "high" -> 16737792
      [] key = "medium" -> 16776960
      [] key = "low" -> 65280
      [] key = "unspecified" -> 8421504
      [] OTHER -> 0

\* color := severityColor[strings.ToLower(input.Severity)], or grey for 0
Color(sev) ==
    IF severityColor(ToLower(sev)) = 0
    THEN severityColor("unspecified")
    ELSE severityColor(ToLower(sev))

\* SendDiscordApproval builds the embed of the prompt
BuildEmbed ==
    /\ ~embed.built
    /\ embed' = [embed EXCEPT !.built = TRUE,
                              !.color = Color(embed.severity),
                              !.description = truncateString(embed.body, MaxBodyLen)]
    /\ UNCHANGED <<runs, env, lastStart, inputs, build, ixn, broker, web, gw, call,
                   consumer, kafka, issue>>

BodyLengths == {1, 1333, 2000, 3997, 3998, 4000, 4001, 5000}

\* bodies of one kind of character, and ASCII bodies that end in two or
\* three 3-byte characters
Bodies ==
    {<<>>}
        \cup {<<Run(n, w)>> : n \in BodyLengths, w \in {1, 2, 3}}
        \cup {<<Run(n, 1), Run(m, 3)>> : n \in {3994, 3996, 3997}, m \in {2, 3}}

InitRender ==
    /\ runs = <<>>
    /\ env = [discordToken |-> TRUE, github |-> "ok"]
    /\ lastStart = [id |-> "", run |-> 0, created |-> FALSE]
    /\ inputs = [id \in PromptIDs |-> [userID |-> "u1", source |-> "discord"]]
    /\ build = "handlers.go"
    /\ ixn = NoInteraction
    /\ broker = NewClient
    /\ web = NewWeb([discord |-> TRUE, slack |-> TRUE])
    /\ gw = NoExchange
    /\ call = NoCall
    /\ \E sev \in Severities, body \in Bodies :
          embed = [NoEmbed EXCEPT !.severity = sev, !.body = body]
    /\ consumer = NewConsumer
    /\ kafka = NoProducer
    /\ issue = DraftIssue

NextRender == BuildEmbed

RenderSpec == InitRender /\ [][NextRender]_vars

(***************************************************************************)
(* Client.Consume: a goroutine fetches records and sends them into a       *)
(* buffered channel until its context is done, then closes the channel.    *)
(***************************************************************************)
\* make(chan kafka.Message, 100)
BufferSize == 100

consumerRest ==
    <<runs, env, lastStart, inputs, build, ixn, broker, web, gw, call, embed,
      kafka, issue>>

\* select { case <-ctx.Done(): return; default: ... }, and the deferred close
Select ==
    /\ consumer.pc = "select"
    /\ consumer' = IF consumer.cancelled
                   THEN [consumer EXCEPT !.pc = "returned", !.closed = TRUE]
                   ELSE [consumer EXCEPT !.pc = "fetch"]
    /\ UNCHANGED consumerRest

\* c.reader.FetchMessage(ctx) returns: a record, an error while the context
\* is live (logged, continue), or an error with the context done (return)
FetchMessage ==
    /\ consumer.pc = "fetch"
    /\ \/ consumer' = [consumer EXCEPT !.pc = "send"]
       \/ consumer' = IF consumer.cancelled
                      THEN [consumer EXCEPT !.pc = "returned", !.closed = TRUE]
                      ELSE [consumer EXCEPT !.pc = "select"]
    /\ UNCHANGED consumerRest

\* records <- msg: blocks while the buffer is full
Send ==
    /\ consumer.pc = "send"
    /\ consumer.buffered < BufferSize
    /\ consumer' = [consumer EXCEPT !.pc = "select", !.buffered = @ + 1]
    /\ UNCHANGED consumerRest

\* the caller receives one record from the channel
Receive ==
    /\ consumer.receiving
    /\ consumer.buffered > 0
    /\ consumer' = [consumer EXCEPT !.buffered = @ - 1]
    /\ UNCHANGED consumerRest

\* the caller stops receiving (it returns, or fails)
StopReceiving ==
    /\ consumer.receiving
    /\ consumer' = [consumer EXCEPT !.receiving = FALSE]
    /\ UNCHANGED consumerRest

\* the context passed to Consume is cancelled
Cancel ==
    /\ ~consumer.cancelled
    /\ consumer' = [consumer EXCEPT !.cancelled = TRUE]
    /\ UNCHANGED consumerRest

InitConsumer ==
    /\ runs = <<>>
    /\ env = [discordToken |-> TRUE, github |-> "ok"]
    /\ lastStart = [id |-> "", run |-> 0, created |-> FALSE]
    /\ GatewayIdle

NextConsumer ==
    \/ Select
    \/ FetchMessage
    \/ Send
    \/ Receive
    \/ StopReceiving
    \/ Cancel

\* the Go scheduler runs a goroutine that can take a step; the caller and
\* the owner of the context are under no obligation
ConsumerSpec ==
    /\ InitConsumer /\ [][NextConsumer]_vars
    /\ WF_vars(Select) /\ WF_vars(FetchMessage) /\ WF_vars(Send)

(***************************************************************************)
(* The web app's Kafka producer: a module-level singleton that concurrent  *)
(* callers obtain through getKafkaProducer.  A step is what runs between   *)
(* two awaits.  Producers and their promises are numbered as created.      *)
(***************************************************************************)
producerRest ==
    <<runs, env, lastStart, inputs, build, ixn, broker, web, gw, call, embed,
      consumer, issue>>

\* variant: the pending promise is not reused
NoPromiseEver(k) == TRUE

\* if (!producerPromise)
NoPromise(k) == k.promise = 0

\* getKafkaProducer up to its await: the producer if there is one, else the
\* promise of one, created (with its producer, whose connect starts) unless
\* one is pending
GetKafkaProducer(c) ==
    /\ kafka.callers[c].pc = "idle"
    /\ IF kafka.producer # 0
       THEN kafka' = [kafka EXCEPT !.callers[c] =
                        [pc |-> "done", awaits |-> 0, got |-> kafka.producer]]
       ELSE LET made == IF NoPromise(kafka)
                        THEN [kafka EXCEPT !.settled = Append(@, "pending"),
                                           !.promise = Len(kafka.settled) + 1]
                        ELSE kafka
            IN kafka' = [made EXCEPT !.callers[c] =
                           [pc |-> "await", awaits |-> made.promise, got |-> 0]]
    /\ UNCHANGED producerRest

\* newProducer.connect() resolves or rejects
Connect(p) ==
    /\ kafka.settled[p] = "pending"
    /\ \E outcome \in {"resolved", "rejected"} :
          kafka' = [kafka EXCEPT !.settled[p] = outcome]
    /\ UNCHANGED producerRest

\* producer = await producerPromise; return producer
Resume(c) ==
    /\ kafka.callers[c].pc = "await"
    /\ kafka.settled[kafka.callers[c].awaits] # "pending"
    /\ kafka' = IF kafka.settled[kafka.callers[c].awaits] = "resolved"
                THEN [kafka EXCEPT !.producer = kafka.callers[c].awaits,
                                   !.callers[c].pc = "done",
                                   !.callers[c].got = kafka.callers[c].awaits]
                ELSE [kafka EXCEPT !.callers[c].pc = "failed"]
    /\ UNCHANGED producerRest

\* disconnectProducer up to its await
DisconnectProducer ==
    /\ kafka.disconnect = "idle"
    /\ kafka' = [kafka EXCEPT !.disconnect =
                    IF kafka.producer # 0 THEN "disconnecting" ELSE "done"]
    /\ UNCHANGED producerRest

\* disconnectProducer after its await: both variables are reset
Disconnected ==
    /\ kafka.disconnect = "disconnecting"
    /\ kafka' = [kafka EXCEPT !.producer = 0, !.promise = 0, !.disconnect = "done"]
    /\ UNCHANGED producerRest

InitProducer ==
    /\ runs = <<>>
    /\ env = [discordToken |-> TRUE, github |-> "ok"]
    /\ lastStart = [id |-> "", run |-> 0, created |-> FALSE]
    /\ GatewayIdle

NextProducer ==
    \/ \E c \in 1..MaxCallers : GetKafkaProducer(c)
    \/ \E p \in DOMAIN kafka.settled : Connect(p)
    \/ \E c \in 1..MaxCallers : Resume(c)
    \/ DisconnectProducer
    \/ Disconnected

ProducerSpec == InitProducer /\ [][NextProducer]_vars

(***************************************************************************)
(* The web app's reject route: it reads the issue, refuses a published     *)
(* one, and then updates the row on the condition that it is still not     *)
(* published.  Publication is the approve path's single update.            *)
(***************************************************************************)
issueRest ==
    <<runs, env, lastStart, inputs, build, ixn, broker, web, gw, call, embed,
      consumer, kafka>>

Reasons == {"", "not a bug"}

\* variant: the update has no condition on the status
AnyStatus(status) == TRUE

\* where: { id, status: { not: 'published' } }
NotPublished(status) == status # "published"

\* POST /api/issues/[id]/reject up to the update: findUnique, 404, 400
RejectRead(q, reason) ==
    /\ issue.rejects[q].pc = "idle"
    /\ issue' =
         IF ~issue.exists
         THEN [issue EXCEPT !.rejects[q] =
                 [pc |-> "done", reason |-> reason, seen |-> <<>>, status |-> 404]]
         ELSE IF issue.status = "published"
         THEN [issue EXCEPT !.rejects[q] =
                 [pc |-> "done", reason |-> reason, seen |-> <<>>, status |-> 400]]
         ELSE [issue EXCEPT !.rejects[q] =
                 [pc |-> "update", reason |-> reason, seen |-> issue.body, status |-> 0]]
    /\ UNCHANGED issueRest

\* prisma.issue.updateMany with the body built from the row read before,
\* then 409 for count 0 and 200 otherwise
RejectUpdate(q) ==
    /\ issue.rejects[q].pc = "update"
    /\ LET req == issue.rejects[q]
           body == IF req.reason # ""
                   THEN <<"**Rejected**: " \o req.reason>> \o req.seen
                   ELSE req.seen
       IN issue' =
            IF issue.exists /\ NotPublished(issue.status)
            THEN [issue EXCEPT !.status = "rejected", !.body = body,
                               !.rejects[q].pc = "done", !.rejects[q].status = 200]
            ELSE [issue EXCEPT !.rejects[q].pc = "done", !.rejects[q].status = 409]
    /\ UNCHANGED issueRest

\* the approve path publishes a draft
PublishIssue ==
    /\ issue.exists
    /\ issue.status = "draft"
    /\ issue' = [issue EXCEPT !.status = "published"]
    /\ UNCHANGED issueRest

InitIssue ==
    /\ runs = <<>>
    /\ env = [discordToken |-> TRUE, github |-> "ok"]
    /\ lastStart = [id |-> "", run |-> 0, created |-> FALSE]
    /\ inputs = [id \in PromptIDs |-> [userID |-> "u1", source |-> "discord"]]
    /\ build = "handlers.go"
    /\ ixn = NoInteraction
    /\ broker = NewClient
    /\ web = NewWeb([discord |-> TRUE, slack |-> TRUE])
    /\ gw = NoExchange
    /\ call = NoCall
    /\ embed = NoEmbed
    /\ consumer = NewConsumer
    /\ kafka = NoProducer
    /\ \E exists \in BOOLEAN : issue = [DraftIssue EXCEPT !.exists = exists]

NextIssue ==
    \/ \E q \in 1..MaxRejects, reason \in Reasons : RejectRead(q, reason)
    \/ \E q \in 1..MaxRejects : RejectUpdate(q)
    \/ PublishIssue

IssueSpec == InitIssue /\ [][NextIssue]_vars

\* ------------------------------------------------------------- properties
Invoked(run, stage) == \E i \in DOMAIN run.stages : run.stages[i] = stage

Invocations(run, stage) ==
    Cardinality({i \in DOMAIN run.stages : run.stages[i] = stage})

IsPrefix(s, t) == Len(s) <= Len(t) /\ s = SubSeq(t, 1, Len(s))

\* run r is the latest run of its workflow id
Latest(rs, r) == \A q \in DOMAIN rs : rs[q].id = rs[r].id => q <= r

\* C1: the publish activity has been invoked only in a run that received a
\* signal whose payload is the string "approve"; a reject, an unrecognised
\* payload or the expiry of the timer never leads to a publish invocation.
NoPublishWithoutApproval ==
    \A r \in DOMAIN runs :
        /\ Invoked(runs[r], "publish") =>
              /\ runs[r].accepted >= 1
              /\ runs[r].signalReceived
              /\ runs[r].signalValue = Str("approve")
        /\ runs[r].outcome \in {"rejected", "timedout"} =>
              ~Invoked(runs[r], "publish") /\ runs[r].issues = 0

ApprovedRunPublishes ==
    \E r \in DOMAIN runs :
        Invoked(runs[r], "publish") /\ runs[r].signalValue = Str("approve")

\* C2 (as claimed): every run that ends as published against a configured
\* tracker has exactly one tracker issue, whatever the retries.
ExactlyOneIssuePerPublishedRun ==
    \A r \in DOMAIN runs :
        runs[r].outcome = "published" /\ env.github = "ok" => runs[r].issues = 1

\* C3 (as claimed): at most one open run exists per workflow id, and a Start
\* with an id that already has a run returns that run and starts no second one.
OneOpenRunPerId ==
    \A q, r \in DOMAIN runs :
        runs[q].id = runs[r].id /\ Open(runs[q]) /\ Open(runs[r]) => q = r

DuplicateStartStartsNothing ==
    /\ []OneOpenRunPerId
    /\ [][(lastStart' # lastStart \/ Len(runs') # Len(runs)) =>
            /\ (\E r \in DOMAIN runs : runs[r].id = lastStart'.id) =>
                  /\ Len(runs') = Len(runs)
                  /\ lastStart'.run \in DOMAIN runs
                  /\ runs[lastStart'.run].id = lastStart'.id]_vars

\* C4: the stages are invoked in the order analyze, notify, approval wait,
\* publish, each at most once; the wait is entered only after notify returned
\* success (posted or soft-skipped); a notify error ends the run with neither
\* wait nor publish.
StagesInOrder ==
    \A r \in DOMAIN runs :
        /\ IsPrefix(runs[r].stages, StageOrder)
        /\ Invoked(runs[r], "await") => runs[r].notified \in {"posted", "skipped"}
        /\ runs[r].notified = "error" =>
              /\ runs[r].pc = "done" /\ runs[r].outcome = "failed"
              /\ runs[r].stages = <<"analyze", "notify">>
              /\ ~runs[r].timerStarted

AllStagesInvoked ==
    \E r \in DOMAIN runs :
        runs[r].stages = StageOrder /\ runs[r].notified = "posted"

\* C5: a run whose analysis is a duplicate has completed successfully with
\* only the analyze activity invoked: no notify, no publish, no signal wait
\* and no timer.
DuplicateSkipsToEnd ==
    \A r \in DOMAIN runs :
        runs[r].analysis = "duplicate" =>
            /\ runs[r].pc = "done" /\ runs[r].outcome = "duplicate"
            /\ runs[r].stages = <<"analyze">>
            /\ ~runs[r].timerStarted /\ ~runs[r].signalReceived
            /\ runs[r].msgs = 0 /\ runs[r].issues = 0

DuplicateAnalysed ==
    \E r \in DOMAIN runs :
        runs[r].analysis = "duplicate" /\ runs[r].accepted > 0

\* C6: a run whose consumed signal is "reject" has terminated without
\* invoking the publish activity.
RejectNeverPublishes ==
    \A r \in DOMAIN runs :
        runs[r].signalReceived /\ runs[r].signalValue = Str("reject") =>
            /\ runs[r].pc = "done" /\ runs[r].outcome = "rejected"
            /\ ~Invoked(runs[r], "publish") /\ runs[r].issues = 0

RejectConsumed ==
    \E r \in DOMAIN runs :
        /\ runs[r].signalReceived /\ runs[r].signalValue = Str("reject")
        /\ Invoked(runs[r], "await")

\* C7 (as claimed): when no signal arrived before the approval timer fired,
\* the run leaves the wait as timed out and never invokes publish.
TimerExpiryNeverPublishes ==
    \A r \in DOMAIN runs :
        runs[r].timerFired /\ runs[r].first.at \in {"never", "late"} =>
            /\ ~Invoked(runs[r], "publish")
            /\ runs[r].pc = "done" => runs[r].outcome = "timedout"

\* C8 (as claimed): whichever of signal arrival and timer expiry happens
\* first decides: an approve that arrived before the timer fired leads to
\* publish, an approve that arrived after the timer fired never does.
FirstOfSignalAndTimerDecides ==
    \A r \in DOMAIN runs :
        /\ Invoked(runs[r], "publish") => runs[r].first.at \in {"early", "waiting"}
        /\ ( /\ runs[r].first = [p |-> Str("approve"), at |-> "waiting"]
             /\ runs[r].pc # "await" ) => Invoked(runs[r], "publish")

\* C9: signals accepted while the run is in analyze or notify stay in the
\* channel, and the workflow task that enters the approval wait with a
\* buffered signal consumes the oldest one at once: it is past the wait in
\* the same step, acting on that signal, with the timer not fired.
BufferedSignalConsumedOnEntry ==
    [][\A r \in DOMAIN runs :
         /\ runs[r].pc \in {"analyze", "notify"} /\ runs'[r].pc \in {"analyze", "notify"}
              => IsPrefix(runs[r].signalChan, runs'[r].signalChan)
         /\ ( /\ runs[r].pc = "notify"
              /\ runs[r].signalChan # <<>>
              /\ runs'[r].pc # "notify"
              /\ runs'[r].outcome # "failed" ) =>
                /\ runs'[r].signalReceived
                /\ runs'[r].signalValue = Head(runs[r].signalChan)
                /\ runs'[r].pc = (IF Head(runs[r].signalChan) = Str("approve")
                                  THEN "publish" ELSE "done")
                /\ ~runs'[r].timerFired]_vars

EarlySignalConsumed ==
    \E r \in DOMAIN runs :
        /\ runs[r].signalReceived /\ runs[r].first.at = "early"
        /\ ~runs[r].timerFired /\ runs[r].pc = "publish"

\* C10: the signal a run acts on is the first one in arrival order, and once
\* it is consumed nothing that happens later to that run (until a new run of
\* the id replaces it) changes the decision or the publish invocations:
\* first approve publishes once, first reject never.
FirstSignalDecides ==
    /\ [](\A r \in DOMAIN runs :
            /\ runs[r].signalReceived => runs[r].signalValue = runs[r].first.p
            /\ Invocations(runs[r], "publish") <= 1
            /\ runs[r].signalReceived =>
                  (Invoked(runs[r], "publish") <=> runs[r].first.p = Str("approve")))
    /\ [][\A r \in DOMAIN runs :
            runs[r].signalReceived /\ Latest(runs', r) =>
                /\ runs'[r].signalReceived
                /\ runs'[r].signalValue = runs[r].signalValue
                /\ Invoked(runs'[r], "publish") = Invoked(runs[r], "publish")]_vars

ApproveThenReject ==
    \E r \in DOMAIN runs :
        /\ runs[r].signalValue = Str("approve")
        /\ runs[r].signalChan = <<Str("reject")>>
        /\ runs[r].pc = "publish"

\* C17 (as claimed): when a publish attempt created the issue but did not
\* return it, the retried publish returns the URL of that same issue, so a
\* published run's URL is always that of the first issue created for it.
RetriedPublishReturnsSameIssue ==
    \A r \in DOMAIN runs :
        runs[r].outcome = "published" /\ runs[r].issues >= 1 => runs[r].url = 1

\* C18 (as claimed): a run that ended as published has recorded, as its
\* external_ref, the URL the publish activity returned.
ExternalRefIsReturnedURL ==
    \A r \in DOMAIN runs :
        runs[r].outcome = "published" => runs[r].externalRef = <<runs[r].url>>

Decisions == {"approve", "reject"}

\* C11 (as claimed): for every decision and every workflow with a posted
\* prompt, the handler's parser applied to the custom_id that the notify
\* activity put on that decision's button returns (decision, workflow id).
CorrelationRoundTrips ==
    \A r \in DOMAIN runs :
        runs[r].msgs > 0 =>
            \A d \in Decisions :
                Parse(build, Controls(runs[r])[d]) =
                    [action |-> d, workflowID |-> runs[r].id]

\* C12 (as claimed): the prompts of two distinct workflows never carry the
\* same correlation identifier on their buttons.
CorrelationIdentifiesWorkflow ==
    \A q, r \in DOMAIN runs :
        runs[q].msgs > 0 /\ runs[r].msgs > 0 /\ runs[q].id # runs[r].id =>
            \A d \in Decisions : Controls(runs[q])[d] # Controls(runs[r])[d]

\* C13 (as claimed): a button click that means (decision, workflow id) makes
\* the handler send exactly one signal, to that workflow id (never the empty
\* id) and with that decision as its payload.
ClickSignalsMeantWorkflow ==
    ixn.type = 3 /\ ixn.meant.decision \in Decisions =>
        /\ Len(ixn.sent) = 1
        /\ ixn.sent[1].workflowID = ixn.meant.workflowID
        /\ ixn.sent[1].workflowID # ""
        /\ ixn.sent[1].payload = Str(ixn.meant.decision)

\* C14 (as claimed): a click whose decoded decision is neither approve nor
\* reject is answered with 400 and no signal is sent.
UnknownDecisionRejected ==
    ixn.type = 3 /\ Parse(build, ixn.customID).action \notin Decisions =>
        ixn.status = 400 /\ ixn.sent = <<>>

\* C15 (as claimed): when the engine refuses the signal because the target
\* workflow has already closed, the user still gets a successful response.
NotFoundAcknowledged ==
    ( /\ ixn.sent # <<>>
      /\ ixn.sent[1].err
      /\ \E r \in DOMAIN runs :
            runs[r].id = ixn.sent[1].workflowID /\ ~Open(runs[r]) ) =>
        ixn.status = 200

\* C16: a ping (type 1) is answered with a ping response (type 1, status
\* 200) and the step that answers it sends no signal and changes nothing
\* but the answer itself.
PingAnsweredWithoutSignal ==
    /\ [](ixn.type = 1 =>
            ixn.status = 200 /\ ixn.respType = 1 /\ ixn.sent = <<>>)
    /\ [][ixn' # ixn /\ ixn'.type = 1 =>
            UNCHANGED <<runs, env, lastStart, inputs, build, broker, web, gw, call, partVars>>]_vars

PingAnswered ==
    /\ ixn.type = 1 /\ ixn.respType = 1
    /\ \E r \in DOMAIN runs : Open(runs[r]) /\ runs[r].accepted > 0

\* C19 (as claimed): every record of the feedback topic results in at most
\* one workflow instance, and so in one final state, for its feedback_id,
\* however often the record is redelivered.
OneInstancePerRecord ==
    \A i \in DOMAIN broker.topic :
        Cardinality({r \in DOMAIN runs :
                        runs[r].id = LaunchID(broker.topic[i])}) <= 1

\* C20 (as claimed): every record on the feedback topic has a key equal to
\* the feedback_id in its value.
KeyIsFeedbackID ==
    \A i \in DOMAIN broker.topic :
        broker.topic[i].key = broker.topic[i].value.feedbackID

\* the record of feedback id is on the handler's topic
Enqueued(handler, id) ==
    IF handler = "core"
    THEN \E i \in DOMAIN broker.topic : broker.topic[i].value.feedbackID = id
    ELSE \E i \in DOMAIN web.events : web.events[i].feedbackID = id

AcceptedOnlyAfterPublish ==
    /\ [](gw.status = 202 => gw.feedbackID # "" /\ Enqueued(gw.handler, gw.feedbackID))
    /\ [][gw' # gw /\ gw'.status = 202 =>
            /\ ~Enqueued(gw'.handler, gw'.feedbackID)
            /\ gw'.handler = "core" => Len(broker'.topic) = Len(broker.topic) + 1]_vars
    /\ [][gw' # gw /\ gw'.handler = "core" /\ gw'.req.kind # "malformed"
            /\ gw'.req.text # "" /\ broker'.topic = broker.topic =>
            gw'.status = 500]_vars

PublishFailureAnswered ==
    /\ gw.handler = "core" /\ gw.req.text = "app crashes"
    /\ gw.status = 500
    /\ broker.topic = <<>>

\* C23 (as claimed): an event request with a missing or invalid signature
\* is answered with a 4xx status, and the step that answers it appends no
\* record and stores nothing.
UnsignedNeverEnqueued ==
    /\ [](gw.req.kind = "event" /\ gw.req.sig \in {"none", "bad"} =>
            gw.status \in {400, 401, 403})
    /\ [][gw' # gw /\ gw'.req.kind = "event" /\ gw'.req.sig \in {"none", "bad"} =>
            broker'.topic = broker.topic /\ web' = web]_vars

\* C24 (as claimed): on both web routes, with the secret configured, an
\* event request carrying the signature the route computes passes the
\* verification exactly when its timestamp is at most 300 seconds old.
ReplayWindowEnforced ==
    ( /\ gw.handler \in {"discord", "slack"}
      /\ web.secrets[gw.handler]
      /\ gw.req.kind = "event" /\ gw.req.sig = "hmac"
      /\ gw.req.age >= 0 ) =>
        (gw.status # 401 <=> gw.req.age <= 300)

\* C25 (as claimed): a run whose notify activity soft-skipped never enters
\* the approval wait, never reaches the publish activity, and ends as
\* failed.
SoftSkipFails ==
    \A r \in DOMAIN runs :
        runs[r].notified = "skipped" =>
            /\ ~Invoked(runs[r], "await")
            /\ ~Invoked(runs[r], "publish")
            /\ ~Open(runs[r]) => runs[r].outcome = "failed"

\* C26: with the tracker credential absent no issue is ever created and no
\* URL returned, and a run that reached the publish activity completes
\* without error.
AbsentTrackerSoftSkips ==
    env.github = "absent" =>
        \A r \in DOMAIN runs :
            /\ runs[r].issues = 0
            /\ runs[r].url = 0
            /\ Invoked(runs[r], "publish") /\ ~Open(runs[r]) =>
                    runs[r].outcome = "published"

PublishSoftSkipped ==
    /\ env.github = "absent"
    /\ \E r \in DOMAIN runs :
          /\ Invoked(runs[r], "publish") /\ runs[r].outcome = "published"
          /\ runs[r].issues = 0 /\ runs[r].url = 0

\* C27 (as claimed): after an invalid-argument error of the analyzer the
\* analyze activity is not run again: the run has ended as failed with
\* analyze as its only stage.
InvalidArgumentFatal ==
    \A r \in DOMAIN runs :
        runs[r].analysis = "invalid-argument" =>
            /\ ~Open(runs[r])
            /\ runs[r].outcome = "failed"
            /\ runs[r].stages = <<"analyze">>

AuthErrorFatal ==
    call.fn = "SimpleRetry" =>
        \A k \in 1..call.calls :
            call.outs[k] = "auth" => k = call.calls /\ call.err # "nil"

\* C30 (as claimed): SimpleRetry and Retry with the default configuration
\* call the wrapped function at most 3 times in total.
AtMostThreeAttempts ==
    call.fn \in {"SimpleRetry", "Retry"} => call.calls <= 3

\* C31: every wait of a retry loop precedes an attempt k >= 1 and lasts
\* min(1 s * 2^(k-1), 30 s) plus a jitter of 0 to 100 ms, so at most
\* 30.1 s; a loop that made n calls waited n - 1 times, never before the
\* first call.
BackoffDelayBounded ==
    /\ \A i \in DOMAIN call.slept :
          LET w == call.slept[i]
              base == IF w.attempt >= 6 THEN 30000
                      ELSE 1000 * Pow(2, w.attempt - 1)
          IN /\ w.attempt >= 1
             /\ w.jitter \in 0..100
             /\ w.delay = base + w.jitter
             /\ w.delay <= 30100
    /\ call.fn \in {"SimpleRetry", "Retry"} =>
          /\ Len(call.slept) = call.calls - 1
          /\ \A i \in DOMAIN call.slept : call.slept[i].attempt = i

CappedDelaySlept ==
    /\ call.fn = "backoff"
    /\ call.slept[1].attempt = 6
    /\ call.slept[1].delay = 30100

\* C32 (as claimed): no run has more than one approval message posted to
\* the chat platform.
AtMostOneMessage ==
    \A r \in DOMAIN runs : runs[r].msgs <= 1

TerminalOutcomes == {"duplicate", "rejected", "timedout", "published", "failed"}

\* C33: every run that exists eventually is in a terminal state, whatever
\* the analyzer answered.
EveryRunTerminates ==
    \A r \in 1..MaxRuns :
        (r \in DOMAIN runs) ~>
            (r \in DOMAIN runs /\ ~Open(runs[r])
                /\ runs[r].outcome \in TerminalOutcomes)

UnspecifiedTerminated ==
    \E r \in DOMAIN runs :
        /\ runs[r].analysis = "unspecified"
        /\ ~Open(runs[r]) /\ runs[r].outcome = "published"

\* number of characters of a string
RECURSIVE CharLen(_)
CharLen(s) == IF s = <<>> THEN 0 ELSE Head(s).n + CharLen(Tail(s))

\* the first k characters of a string
RECURSIVE FirstChars(_, _)
FirstChars(s, k) ==
    IF s = <<>> \/ k = 0 THEN <<>>
    ELSE IF Head(s).n <= k
         THEN <<Head(s)>> \o FirstChars(Tail(s), k - Head(s).n)
         ELSE <<Run(k, Head(s).w)>>

\* C34 (as claimed): the rendered body is the input body when that has at
\* most 4000 characters, and else its first 3997 characters followed by
\* the marker; it never has more than 4000 characters.
BodyTruncatedByCharacters ==
    embed.built =>
        /\ CharLen(embed.body) <= 4000 =>
                embed.description = [text |-> embed.body, broken |-> 0, marker |-> FALSE]
        /\ CharLen(embed.body) > 4000 =>
                embed.description =
                    [text |-> FirstChars(embed.body, 3997), broken |-> 0, marker |-> TRUE]
        /\ CharLen(embed.description.text) + embed.description.broken
              + (IF embed.description.marker THEN 3 ELSE 0) <= 4000

\* C35: the colour of the prompt is the one the table assigns to the
\* severity, whatever its case, and grey for every other severity.
ColorFollowsTable ==
    embed.built =>
        embed.color =
            CASE embed.severity \in {"critical", "CRITICAL"} -> 16711680
              [] embed.severity \in {"high", "High"} -> 16737792
              [] embed.severity \in {"medium", "MEDIUM"} -> 16776960
              [] embed.severity \in {"low", "Low"} -> 65280
              [] OTHER -> 8421504

MixedCaseColored ==
    embed.built /\ embed.severity = "High" /\ embed.color = 16737792

\* C36: SimpleRetry returns nil right after the first call of fn that
\* returned nil, having made no call after it; when no call returned nil
\* it has made every call and returns an error that wraps the last
\* call's error.
SimpleRetryStopsAtSuccess ==
    call.fn = "SimpleRetry" =>
        LET oks == {k \in DOMAIN call.outs : call.outs[k] = "ok"}
        IN IF oks # {}
           THEN /\ call.err = "nil"
                /\ call.calls \in oks
                /\ \A k \in oks : call.calls <= k
           ELSE /\ call.err = "retry failed"
                /\ call.calls = Len(call.outs)
                /\ call.wraps = call.outs[Len(call.outs)]

StoppedBeforeLaterCalls ==
    /\ call.fn = "SimpleRetry" /\ call.err = "nil"
    /\ call.calls = 2
    /\ call.outs[3] = "auth" /\ call.outs[4] = "ok"

\* C37 (as claimed): once the context is cancelled the goroutine eventually
\* returns and the records channel is closed.
CancelledConsumerCloses ==
    consumer.cancelled ~> consumer.closed

\* C38: as long as disconnectProducer has not been called, at most one
\* producer has been created, and every caller that has its answer has
\* that producer.
OneProducerPerProcess ==
    kafka.disconnect = "idle" =>
        /\ Len(kafka.settled) <= 1
        /\ \A c \in 1..MaxCallers :
              kafka.callers[c].pc = "done" => kafka.callers[c].got = 1

ConcurrentCallersShareProducer ==
    /\ kafka.disconnect = "idle"
    /\ kafka.callers[1].pc = "done" /\ kafka.callers[1].awaits = 1
    /\ kafka.callers[2].pc = "done" /\ kafka.callers[2].awaits = 1
    /\ kafka.callers[1].got = kafka.callers[2].got

====
